---------------------------- MODULE Spec2Model ----------------------------
(***************************************************************************)
(* A model of pennywise's monthly report pipeline                          *)
(* (src/src/pennywise/generate_monthly_reports.py): the paginated scan,    *)
(* the month filter and validation, the aggregation into a summary, the    *)
(* rendering of the PDF and the optional upload; lambda_handler around it,  *)
(* invoked once or again over the same store; and the two parsers          *)
(* parse_amount and extract_month_from_date called on their own; and       *)
(* generate_overall_pdf_summary, which nothing in the package calls,       *)
(* called on its own.                                                      *)
(*                                                                         *)
(* Representation.                                                         *)
(*  - A Python str that the code inspects character by character (dates,   *)
(*    amounts, transaction types, month keys) is a sequence of             *)
(*    one-character strings.  Names that are only compared and grouped     *)
(*    (category, merchant) are atomic strings.                             *)
(*  - A DynamoDB item is a function from the field names it has to their   *)
(*    values; a field the item lacks is outside its DOMAIN.                *)
(*  - A Python float is a signed integer number of hundredths kept to      *)
(*    MantissaBits significant bits, every arithmetic result rounded to    *)
(*    nearest, ties to even, as IEEE-754 does with 53 bits.                *)
(***************************************************************************)
EXTENDS Integers, Sequences, FiniteSets, TLC

(***************************************************************************)
(* Bounds of the model and constants of the program.                       *)
(***************************************************************************)
\* significant bits of a float of the model (binary64 has 53)
MantissaBits == 8
\* most months in a monthly_data handed to generate_overall_pdf_summary
MaxMonths == 3
\* longest store content drawn from the full record alphabet
MaxItems == 2
\* length of the store contents drawn from the expense-only alphabet
SumLen == 3
\* number of distinct names beyond the top-N cut in the many-names stores
ExtraNames == 1
\* the runs over one store in the specification of the reruns
MaxRuns == 2
\* generate_monthly_report: max_scans = 100
max_scans == 100
\* generate_monthly_report: sorted(...)[:10]
TopN == 10

(***************************************************************************)
(* Characters and strings.                                                 *)
(***************************************************************************)
DigitChars == <<"0", "1", "2", "3", "4", "5", "6", "7", "8", "9">>

IsDigit(c) == \E i \in 1..10 : DigitChars[i] = c

DigitVal(c) == (CHOOSE i \in 1..10 : DigitChars[i] = c) - 1

DigitChar(d) == DigitChars[d + 1]

\* the number of decimal digits of n >= 0
NumDigits(n) == CHOOSE k \in 1..9 : n < 10 ^ k /\ (k = 1 \/ n >= 10 ^ (k - 1))

\* str(n) for n >= 0
IntStr(n) ==
    [i \in 1..NumDigits(n) |-> DigitChar((n \div (10 ^ (NumDigits(n) - i))) % 10)]

\* s right-aligned in at least w characters, zero padded (":02d", and
\* strftime's %m and %Y)
ZeroPad(s, w) ==
    IF Len(s) >= w THEN s ELSE [i \in 1..(w - Len(s)) |-> "0"] \o s

\* the decimal value of a sequence of digit characters
RECURSIVE DigitsVal(_)
DigitsVal(s) == IF s = <<>> THEN 0
                ELSE 10 * DigitsVal(SubSeq(s, 1, Len(s) - 1)) + DigitVal(s[Len(s)])

AllDigits(s) == \A i \in 1..Len(s) : IsDigit(s[i])

\* s.replace(c, "")
RemoveChar(s, c) == SelectSeq(s, LAMBDA x : x # c)

\* str.lower() on the letters the model's strings use
LowerChar(c) ==
    CASE c = "C" -> "c" [] c = "R" -> "r" [] c = "E" -> "e" [] c = "D" -> "d"
      [] c = "I" -> "i" [] c = "T" -> "t" [] c = "B" -> "b" [] OTHER -> c

\* a type compared without lowercasing
MutLower(s) == s

Lower(s) == [i \in 1..Len(s) |-> LowerChar(s[i])]

\* the fields of s between occurrences of sep
Split(s, sep) ==
    LET at == SelectSeq([i \in 1..Len(s) |-> i], LAMBDA i : s[i] = sep)
    IN  [k \in 1..(Len(at) + 1) |->
            SubSeq(s, IF k = 1 THEN 1 ELSE at[k - 1] + 1,
                      IF k > Len(at) THEN Len(s) ELSE at[k] - 1)]

\* Python's None, and the truth value of a str-or-None
None == <<"None">>

Truthy(v) == v # None /\ v # <<>>

(***************************************************************************)
(* Floats: integers of hundredths, rounded to MantissaBits significant     *)
(* bits, to nearest, ties to even.                                         *)
(***************************************************************************)
\* the spacing of the floats around a >= 0
RECURSIVE UlpOf(_)
UlpOf(a) == IF a < 2 ^ MantissaBits THEN 1 ELSE 2 * UlpOf(a \div 2)

RoundAbs(a) ==
    LET u == UlpOf(a)
        q == a \div u
        r == a % u
    IN  IF 2 * r < u THEN q * u
        ELSE IF 2 * r > u THEN (q + 1) * u
        ELSE IF q % 2 = 0 THEN q * u ELSE (q + 1) * u

RoundF(x) == IF x >= 0 THEN RoundAbs(x) ELSE 0 - RoundAbs(0 - x)

FAdd(a, b) == RoundF(a + b)

FSub(a, b) == RoundF(a - b)

FAbs(a) == IF a < 0 THEN 0 - a ELSE a

(***************************************************************************)
(* parse_amount.                                                           *)
(***************************************************************************)
\* str.strip() of the spaces float() ignores around its argument
RECURSIVE StripSpaces(_)
StripSpaces(s) ==
    IF s # <<>> /\ s[1] = " " THEN StripSpaces(Tail(s))
    ELSE IF s # <<>> /\ s[Len(s)] = " " THEN StripSpaces(SubSeq(s, 1, Len(s) - 1))
    ELSE s

\* the first two fraction digits as hundredths
FractionHundredths(f) ==
    IF Len(f) = 0 THEN 0
    ELSE IF Len(f) = 1 THEN 10 * DigitVal(f[1])
    ELSE 10 * DigitVal(f[1]) + DigitVal(f[2])

\* float(t) on a decimal literal without spaces around it
PyFloatDecimal(t) ==
    LET signed == t # <<>> /\ t[1] \in {"+", "-"}
        body == IF signed THEN Tail(t) ELSE t
        parts == Split(body, ".")
        ip == parts[1]
        fp == IF Len(parts) = 2 THEN parts[2] ELSE <<>>
        wellFormed == /\ Len(parts) \in {1, 2}
                      /\ AllDigits(ip) /\ AllDigits(fp)
                      /\ Len(ip) + Len(fp) > 0
        mag == 100 * DigitsVal(ip) + FractionHundredths(fp)
    IN  IF ~wellFormed THEN [ok |-> FALSE, val |-> 0]
        ELSE [ok |-> TRUE,
              val |-> RoundF(IF signed /\ t[1] = "-" THEN 0 - mag ELSE mag)]

\* the floats that are not finite, float("inf"), float("-inf") and
\* float("nan"): three numbers beyond every amount of the model.  No store of
\* the model holds such an amount, so none of them enters the arithmetic.
PosInf == 2 ^ 29

NegInf == 0 - PosInf

NaN == 2 * PosInf

InfWords ==
    { <<"i", "n", "f">>, <<"i", "n", "f", "i", "n", "i", "t", "y">> }

\* float(s) on decimal literals, [sign] digits [. digits] or [sign] . digits,
\* and on the words nan, inf and infinity with an optional sign (lower case
\* in the strings of the model; exponents and underscores are in none of
\* them).  ok = FALSE stands for ValueError.  The strings of the model carry
\* at most two fraction digits, so a literal's value is a whole number of
\* hundredths, which is then rounded to the nearest float.
PyFloat(s) ==
    LET t == StripSpaces(s)
        signed == t # <<>> /\ t[1] \in {"+", "-"}
        body == IF signed THEN Tail(t) ELSE t
    IN  IF body = <<"n", "a", "n">> THEN [ok |-> TRUE, val |-> NaN]
        ELSE IF body \in InfWords
        THEN [ok |-> TRUE, val |-> IF t[1] = "-" THEN NegInf ELSE PosInf]
        ELSE PyFloatDecimal(t)

StripCurrency(s) ==
    RemoveChar(RemoveChar(RemoveChar(RemoveChar(RemoveChar(s,
        "N"), "$"), ","), "L"), "E")

\* parse_amount(amount_str); the characters "N", "L" and "E" stand for the
\* naira, pound and euro signs
parse_amount(amount_str) ==
    IF ~Truthy(amount_str) THEN 0
    ELSE LET r == PyFloat(StripCurrency(amount_str))
         IN  IF r.ok THEN r.val ELSE 0

(***************************************************************************)
(* extract_month_from_date.                                                *)
(***************************************************************************)
\* the directives of datetime.strptime, as the regular expressions of
\* _strptime.py match them
MatchY(f) == Len(f) = 4 /\ AllDigits(f)

MatchM(f) ==
    \/ Len(f) = 2 /\ f[1] = "1" /\ f[2] \in {"0", "1", "2"}
    \/ Len(f) = 2 /\ f[1] = "0" /\ IsDigit(f[2]) /\ f[2] # "0"
    \/ Len(f) = 1 /\ IsDigit(f[1]) /\ f[1] # "0"

MatchD(f) ==
    \/ Len(f) = 2 /\ f[1] = "3" /\ f[2] \in {"0", "1"}
    \/ Len(f) = 2 /\ f[1] \in {"1", "2"} /\ IsDigit(f[2])
    \/ Len(f) = 2 /\ f[1] \in {"0", " "} /\ IsDigit(f[2]) /\ f[2] # "0"
    \/ Len(f) = 1 /\ IsDigit(f[1]) /\ f[1] # "0"

MatchField(d, f) ==
    CASE d = "Y" -> MatchY(f) [] d = "m" -> MatchM(f) [] OTHER -> MatchD(f)

FieldVal(f) == DigitsVal(RemoveChar(f, " "))

IsLeap(y) == (y % 4 = 0 /\ y % 100 # 0) \/ y % 400 = 0

DaysInMonth(y, m) ==
    IF m = 2 THEN (IF IsLeap(y) THEN 29 ELSE 28)
    ELSE IF m \in {4, 6, 9, 11} THEN 30 ELSE 31

\* the formats with month-first tried before day-first
MutDateFormats ==
    << [sep |-> "-", order |-> <<"Y", "m", "d">>],
       [sep |-> "/", order |-> <<"m", "d", "Y">>],
       [sep |-> "/", order |-> <<"d", "m", "Y">>],
       [sep |-> "/", order |-> <<"Y", "m", "d">>],
       [sep |-> "-", order |-> <<"m", "d", "Y">>],
       [sep |-> "-", order |-> <<"d", "m", "Y">>] >>

\* the six formats of date_formats, in order: the separator and the order
\* of the directives
date_formats ==
    << [sep |-> "-", order |-> <<"Y", "m", "d">>],
       [sep |-> "/", order |-> <<"d", "m", "Y">>],
       [sep |-> "/", order |-> <<"m", "d", "Y">>],
       [sep |-> "/", order |-> <<"Y", "m", "d">>],
       [sep |-> "-", order |-> <<"d", "m", "Y">>],
       [sep |-> "-", order |-> <<"m", "d", "Y">>] >>

\* datetime.strptime(s, fmt): ok = FALSE stands for ValueError
strptime(s, fmt) ==
    LET fields == Split(s, fmt.sep)
        fits == /\ Len(fields) = 3
                /\ \A i \in 1..3 : MatchField(fmt.order[i], fields[i])
        pos(d) == CHOOSE i \in 1..3 : fmt.order[i] = d
        y == FieldVal(fields[pos("Y")])
        m == FieldVal(fields[pos("m")])
        d == FieldVal(fields[pos("d")])
    IN  IF fits /\ y >= 1 /\ d <= DaysInMonth(y, m)
        THEN [ok |-> TRUE, year |-> y, month |-> m]
        ELSE [ok |-> FALSE, year |-> 0, month |-> 0]

\* date_obj.strftime("%Y-%m")
MonthKey(y, m) == ZeroPad(IntStr(y), 4) \o <<"-">> \o ZeroPad(IntStr(m), 2)

\* the loop over date_formats: the key of the first format that parses
TryFormats(s) ==
    LET parses == { k \in 1..Len(date_formats) : strptime(s, date_formats[k]).ok }
    IN  IF parses = {} THEN None
        ELSE LET first == CHOOSE k \in parses : \A j \in parses : k <= j
                 r == strptime(s, date_formats[first])
             IN  MonthKey(r.year, r.month)

extract_month_from_date(date_str) ==
    IF ~Truthy(date_str) THEN None ELSE TryFormats(date_str)

(***************************************************************************)
(* The inputs: stores (tables) and invocation dates.                       *)
(***************************************************************************)
JanIso == <<"2", "0", "2", "4", "-", "0", "1", "-", "1", "5">>
JanSlash == <<"1", "5", "/", "0", "1", "/", "2", "0", "2", "4">>
FebIso == <<"2", "0", "2", "4", "-", "0", "2", "-", "0", "1">>
BadDate == <<"s", "o", "o", "n">>

Credit == <<"c", "r", "e", "d", "i", "t">>
CreditCap == <<"C", "r", "e", "d", "i", "t">>
CreditUpper == <<"C", "R", "E", "D", "I", "T">>
Debit == <<"d", "e", "b", "i", "t">>

Amt100 == <<"1", ".", "0", "0">>
Amt101 == <<"1", ".", "0", "1">>
Amt150 == <<"1", ".", "5", "0">>
AmtDollar200 == <<"$", "2", ".", "0", "0">>
AmtNeg150 == <<"-", "1", ".", "5", "0">>
AmtNeg075 == <<"-", "0", ".", "7", "5">>
AmtZero == <<"0", ".", "0", "0">>
AmtWord == <<"a", "b", "c">>

\* a complete item
Item(date, amount, type, category, merchant) ==
    [date |-> date, amount |-> amount, transactionType |-> type,
     category |-> category, merchant |-> merchant,
     description |-> <<"note">>, paymentMethod |-> "card"]

\* the record alphabet of the small stores: valid and invalid items of the
\* two months 2024-01 and 2024-02
Records ==
    << Item(JanIso, Amt100, Debit, "Food", "Grocer"),
       Item(JanIso, AmtDollar200, Credit, "Salary", "Employer"),
       Item(JanIso, AmtNeg150, CreditCap, "Refund", "Grocer"),
       Item(JanSlash, AmtNeg075, Debit, "Food", "Market"),
       Item(FebIso, Amt150, Debit, "Transport", "Garage"),
       Item(BadDate, Amt100, Debit, "Food", "Grocer"),
       Item(JanIso, AmtWord, Debit, "Food", "Grocer"),
       Item(JanIso, AmtZero, Debit, "Food", "Grocer"),
       Item(JanIso, Amt100, Debit, "", "Grocer"),
       [date |-> JanIso, amount |-> Amt150],
       [amount |-> Amt100, transactionType |-> Debit, category |-> "Food",
        merchant |-> "Grocer"],
       Item(JanIso, Amt150, CreditUpper, "Salary", "Employer") >>

\* the expense-only alphabet: two categories, two merchants, three amounts
ExpenseRecords ==
    << Item(JanIso, Amt101, Debit, "Food", "Grocer"),
       Item(JanIso, Amt150, Debit, "Food", "Market"),
       Item(JanIso, AmtDollar200, Debit, "Transport", "Grocer"),
       Item(JanIso, Amt101, Debit, "Transport", "Market") >>

Names ==
    << "n01", "n02", "n03", "n04", "n05", "n06", "n07", "n08", "n09", "n10",
       "n11", "n12", "n13", "n14" >>

\* item i of the many-names store with pattern p: TopN + ExtraNames distinct
\* categories and merchants, each met twice, amounts 0.01 .. 0.05 in an
\* order set by p (all 0.01 when p = 5), every seventh item a credit
NamesCount == TopN + ExtraNames

PatternAmount(i, p) == <<"0", ".", "0", DigitChar(((i * p) % 5) + 1)>>

ManyNamesItem(i, p) ==
    [date |-> JanIso, amount |-> PatternAmount(i, p),
     transactionType |-> IF i % 7 = 0 THEN Credit ELSE Debit,
     category |-> Names[((i - 1) % NamesCount) + 1],
     merchant |-> Names[((i * 5) % NamesCount) + 1],
     description |-> <<"note">>, paymentMethod |-> "card"]

\* item k of page i of a paged store
PagedItem(i, k) ==
    [date |-> IF i % 2 = 0 THEN JanIso ELSE FebIso, amount |-> Amt100,
     transactionType |-> Debit, category |-> Names[(i % 3) + 1],
     merchant |-> "Grocer", description |-> <<"page", i, k>>,
     paymentMethod |-> "card"]

\* the pages of a paged store that hold items: the first three, every
\* twenty-fifth, and those around the scan limit; the others are empty
PageHoldsItems(i) == i <= 3 \/ i % 25 = 0 \/ i > max_scans

\* page i of a paged store
PagedPage(i) ==
    [k \in 1..(IF PageHoldsItems(i) THEN 1 + (i % 2) ELSE 0) |-> PagedItem(i, k)]

\* a store: its pages in order; endless = it returns a continuation token
\* on every page, with empty pages after its last one, for ever; malformed =
\* the number of the page whose response has no Items field (0: none)
OnePage(its) == [pages |-> <<its>>, endless |-> FALSE, malformed |-> 0]

SmallTables ==
    { OnePage([i \in DOMAIN f |-> Records[f[i]]]) :
        f \in UNION {[1..k -> 1..Len(Records)] : k \in 0..MaxItems} }

SumTables ==
    { OnePage([i \in 1..SumLen |-> ExpenseRecords[f[i]]]) :
        f \in [1..SumLen -> 1..Len(ExpenseRecords)] }

ManyNamesTables ==
    { OnePage([i \in 1..(2 * NamesCount) |-> ManyNamesItem(i, p)]) : p \in 1..5 }

PageCounts == {1, 2, 3, max_scans - 1, max_scans, max_scans + 1}

PagedTables ==
    { [pages |-> [i \in 1..n |-> PagedPage(i)], endless |-> FALSE, malformed |-> 0] :
        n \in PageCounts }
    \cup { [pages |-> [i \in 1..2 |-> PagedPage(i)], endless |-> TRUE, malformed |-> 0] }

\* stores that answer the first or the second scan request without Items
MalformedTables ==
    { [pages |-> <<<<>>>>, endless |-> FALSE, malformed |-> 1],
      [pages |-> [i \in 1..2 |-> PagedPage(i)], endless |-> FALSE, malformed |-> 2],
      [pages |-> [i \in 1..3 |-> PagedPage(i)], endless |-> FALSE, malformed |-> 2] }

Tables ==
    SmallTables \cup SumTables \cup ManyNamesTables \cup PagedTables
        \cup MalformedTables

\* invocation dates <<year, month>>: datetime.now()
Nows == { <<2024, 2>>, <<2024, 3>>, <<2025, 1>> }

Buckets == { "", "reports-bucket" }

DirStates == { "exists", "absent", "no_parent" }

(***************************************************************************)
(* The store's scan operation.                                             *)
(***************************************************************************)
NoKey == <<>>

\* the continuation token the store returns with page i
Token(i) == <<"key", i>>

PageAt(t, i) == IF i <= Len(t.pages) THEN t.pages[i] ELSE <<>>

HasMore(t, i) == t.endless \/ i < Len(t.pages)

\* table.scan(ExclusiveStartKey=key): the page after the one key came with
TableScan(t, key) ==
    LET i == IF key = NoKey THEN 1 ELSE key[2] + 1
    IN  IF i = t.malformed
        THEN IF HasMore(t, i)
             THEN [Count |-> 0, LastEvaluatedKey |-> Token(i)]
             ELSE [Count |-> 0]
        ELSE IF HasMore(t, i)
        THEN [Items |-> PageAt(t, i), LastEvaluatedKey |-> Token(i)]
        ELSE [Items |-> PageAt(t, i)]

(***************************************************************************)
(* The steps of generate_monthly_report as pure functions.                 *)
(***************************************************************************)
\* item.get(key, default)
Get(item, key, default) == IF key \in DOMAIN item THEN item[key] ELSE default

\* the previous month without the step back over the year
MutPreviousMonth(now) ==
    IntStr(now[1]) \o <<"-">> \o ZeroPad(IntStr(now[2] - 1), 2)

\* the previous month of the invocation date, as the f-strings format it
PreviousMonth(now) ==
    IF now[2] = 1
    THEN IntStr(now[1] - 1) \o <<"-", "1", "2">>
    ELSE IntStr(now[1]) \o <<"-">> \o ZeroPad(IntStr(now[2] - 1), 2)

\* all([date_str, amount, category, merchant])
Validates(date_str, amount, category, merchant) ==
    Truthy(date_str) /\ amount # 0 /\ category # "" /\ merchant # ""

\* the dict appended to previous_month_transactions
Normalised(item) ==
    [date |-> Get(item, "date", None),
     amount |-> parse_amount(Get(item, "amount", None)),
     type |-> Lower(Get(item, "transactionType", <<>>)),
     category |-> Get(item, "category", "Unknown"),
     merchant |-> Get(item, "merchant", "Unknown"),
     description |-> Get(item, "description", <<>>),
     paymentMethod |-> Get(item, "paymentMethod", "Unknown")]

\* the pass without the comparison with the target month
MutVerdict(item, previous_month) ==
    LET month == extract_month_from_date(Get(item, "date", None))
        txn == Normalised(item)
    IN  IF ~Truthy(month) THEN "bad_date"
        ELSE IF ~Validates(txn.date, txn.amount, txn.category, txn.merchant)
             THEN "invalid"
        ELSE "kept"

\* what one pass of the body of "for item in items" does with an item:
\* "bad_date" (warned, skipped), "other_month" (skipped), "invalid" (warned,
\* skipped) or "kept"
Verdict(item, previous_month) ==
    LET month == extract_month_from_date(Get(item, "date", None))
        txn == Normalised(item)
    IN  IF ~Truthy(month) THEN "bad_date"
        ELSE IF month # previous_month THEN "other_month"
        ELSE IF ~Validates(txn.date, txn.amount, txn.category, txn.merchant)
             THEN "invalid"
        ELSE "kept"

\* the loop "for item in items": the transactions kept, in order
FilterItems(its, previous_month) ==
    LET kept == SelectSeq(its, LAMBDA it : Verdict(it, previous_month) = "kept")
    IN  [i \in 1..Len(kept) |-> Normalised(kept[i])]

\* the warnings the loop prints
FilterWarnings(its, previous_month) ==
    { Verdict(its[i], previous_month) : i \in 1..Len(its) }
        \cap { "bad_date", "invalid" }

\* a defaultdict(float) is the sequence of its <<key, value>> pairs in
\* insertion order; d[k] += v
DictIndex(d, k) ==
    IF \E i \in 1..Len(d) : d[i][1] = k
    THEN CHOOSE i \in 1..Len(d) : d[i][1] = k
    ELSE 0

DictAdd(d, k, v) ==
    LET i == DictIndex(d, k)
    IN  IF i = 0 THEN Append(d, <<k, FAdd(0, v)>>)
        ELSE [d EXCEPT ![i] = <<k, FAdd(d[i][2], v)>>]

\* the amount added to total_income for a credit transaction
IncomeTerm(txn) == txn.amount

\* the expense without abs()
MutExpenseTerm(txn) == txn.amount

\* the amount added to total_expenses and the two dicts otherwise
ExpenseTerm(txn) == FAbs(txn.amount)

\* one pass of the body of "for txn in previous_month_transactions"
Accumulate(acc, txn) ==
    IF txn.type = Credit
    THEN [acc EXCEPT !.total_income = FAdd(@, IncomeTerm(txn))]
    ELSE [acc EXCEPT !.total_expenses = FAdd(@, ExpenseTerm(txn)),
                     !.categories = DictAdd(@, txn.category, ExpenseTerm(txn)),
                     !.merchants = DictAdd(@, txn.merchant, ExpenseTerm(txn))]

EmptyAcc ==
    [total_income |-> 0, total_expenses |-> 0,
     categories |-> <<>>, merchants |-> <<>>]

RECURSIVE AccumulateAll(_, _, _)
AccumulateAll(acc, txns, i) ==
    IF i > Len(txns) THEN acc
    ELSE AccumulateAll(Accumulate(acc, txns[i]), txns, i + 1)

\* the difference the wrong way round
MutNetIncome(total_income, total_expenses) == FSub(total_expenses, total_income)

\* net_income = total_income - total_expenses
NetIncome(total_income, total_expenses) == FSub(total_income, total_expenses)

\* a sort that reverses equal amounts
MutComesBefore(d, j, i) == d[j][2] > d[i][2] \/ (d[j][2] = d[i][2] /\ j > i)

\* sorted(d.items(), key=lambda x: x[1], reverse=True): stable, descending
ComesBefore(d, j, i) == d[j][2] > d[i][2] \/ (d[j][2] = d[i][2] /\ j < i)

SortedDesc(d) ==
    LET rank(i) == 1 + Cardinality({ j \in 1..Len(d) : ComesBefore(d, j, i) })
    IN  [r \in 1..Len(d) |-> d[CHOOSE i \in 1..Len(d) : rank(i) = r]]

\* s[:n]
Take(s, n) == SubSeq(s, 1, IF Len(s) < n THEN Len(s) ELSE n)

TopEntries(d) == Take(SortedDesc(d), TopN)

\* the output file and the S3 key
ReportName(month) == <<"transaction_report_", month, ".pdf">>

ReportKey(prefix, month) ==
    <<prefix, "monthly_reports/", month, "/", "transaction_report_", month, ".pdf">>

(***************************************************************************)
(* The state.                                                              *)
(***************************************************************************)
VARIABLES
    pc,                 \* where the run of generate_monthly_report stands
    table,              \* the store handed to the run
    s3_bucket,          \* the s3_bucket argument ("" = none)
    dir,                \* the output directory: exists, absent, no_parent
    previous_month,     \* the target month key
    response,           \* the last scan response
    items,              \* the items accumulated by the scan
    scan_count,         \* the scan requests issued
    requests,           \* the ExclusiveStartKey of every scan request, in order
    warnings,           \* the warnings printed
    previous_month_transactions,
    total_income, total_expenses, categories, merchants, net_income,
    top_categories, top_merchants,
    report,             \* <<>> until the report dict is built, then <<dict>>
    files,              \* the files of the output directory
    uploads,            \* the upload_file calls of the run: key and outcome
    current_date,       \* datetime.now() of the run: <<year, month>>
    status_code,        \* what lambda_handler returned for the run (0: not yet)
    history,            \* the runs before this one: month, report, files, uploads
    arg,                \* the argument of a call of one of the two parsers
    result              \* and what the call returned

vars ==
    << pc, table, s3_bucket, dir, previous_month, response, items, scan_count,
       requests, warnings, previous_month_transactions, total_income,
       total_expenses, categories, merchants, net_income, top_categories,
       top_merchants, report, files, uploads, current_date, status_code,
       history, arg, result >>

\* what the call sets
callVars == << table, s3_bucket, dir, previous_month, current_date >>

\* what the steps of a run leave alone
envVars == << status_code, history, arg, result >>

scanVars == << response, items, scan_count, requests >>

sumVars ==
    << total_income, total_expenses, categories, merchants, net_income >>

topVars == << top_categories, top_merchants, report >>

Init ==
    /\ pc = "idle"
    /\ table \in Tables
    /\ s3_bucket = ""
    /\ dir = "exists"
    /\ previous_month = <<>>
    /\ response = [Items |-> <<>>]
    /\ items = <<>>
    /\ scan_count = 0
    /\ requests = <<>>
    /\ warnings = {}
    /\ previous_month_transactions = <<>>
    /\ total_income = 0
    /\ total_expenses = 0
    /\ categories = <<>>
    /\ merchants = <<>>
    /\ net_income = 0
    /\ top_categories = <<>>
    /\ top_merchants = <<>>
    /\ report = <<>>
    /\ files = {}
    /\ uploads = <<>>
    /\ current_date = <<>>
    /\ status_code = 0
    /\ history = <<>>
    /\ arg = <<>>
    /\ result = <<>>

(***************************************************************************)
(* The actions: generate_monthly_report, step by step.                     *)
(***************************************************************************)
\* lines 176-197: the call, output_path.mkdir(exist_ok=True), the target
\* month of a date drawn from nows; the directory of an earlier run exists
CallWith(nows) ==
    /\ pc = "idle"
    /\ \E b \in Buckets, now \in nows,
          d \in (IF history = <<>> THEN DirStates ELSE {"exists"}) :
        /\ s3_bucket' = b
        /\ current_date' = IF d = "no_parent" THEN <<>> ELSE now
        /\ previous_month' = IF d = "no_parent" THEN <<>> ELSE PreviousMonth(now)
        /\ dir' = IF d = "no_parent" THEN d ELSE "exists"
        /\ pc' = IF d = "no_parent" THEN "raised" ELSE "scan"
    /\ UNCHANGED << table, envVars, scanVars, warnings,
                    previous_month_transactions, sumVars, topVars, files, uploads >>

Call == CallWith(Nows)

\* lines 201-205: the first scan request
ScanFirst ==
    /\ pc = "scan"
    /\ response' = TableScan(table, NoKey)
    /\ requests' = Append(requests, NoKey)
    /\ IF "Items" \in DOMAIN response'
       THEN /\ items' = response'.Items
            /\ scan_count' = 1
            /\ pc' = "scan_loop"
       ELSE \* KeyError at response["Items"]
            /\ pc' = "raised"
            /\ UNCHANGED << items, scan_count >>
    /\ UNCHANGED << callVars, envVars, warnings,
                    previous_month_transactions, sumVars, topVars, files, uploads >>

\* the loop restarting from the first page: no ExclusiveStartKey passed
MutNextStartKey(resp) == NoKey

\* the key the loop passes as ExclusiveStartKey
NextStartKey(resp) == resp.LastEvaluatedKey

\* the loop's ceiling off by one
MutScanContinues(resp, count) ==
    "LastEvaluatedKey" \in DOMAIN resp /\ count <= max_scans

\* the condition of the while loop
ScanContinues(resp, count) ==
    "LastEvaluatedKey" \in DOMAIN resp /\ count < max_scans

\* lines 208-212: one pass of the while loop
ScanNext ==
    /\ pc = "scan_loop"
    /\ ScanContinues(response, scan_count)
    /\ response' = TableScan(table, NextStartKey(response))
    /\ requests' = Append(requests, NextStartKey(response))
    /\ IF "Items" \in DOMAIN response'
       THEN /\ items' = items \o response'.Items
            /\ scan_count' = scan_count + 1
            /\ UNCHANGED pc
       ELSE \* KeyError at response["Items"]
            /\ pc' = "raised"
            /\ UNCHANGED << items, scan_count >>
    /\ UNCHANGED << callVars, envVars, warnings,
                    previous_month_transactions, sumVars, topVars, files, uploads >>

\* the warning only beyond the ceiling, which the loop never passes
MutLimitReached(count) == count > max_scans

\* the condition of the warning after the loop
LimitReached(count) == count >= max_scans

\* lines 214-219: the loop is left; the scan limit warning
ScanEnd ==
    /\ pc = "scan_loop"
    /\ ~ScanContinues(response, scan_count)
    /\ warnings' = IF LimitReached(scan_count)
                   THEN warnings \cup {"scan_limit"} ELSE warnings
    /\ pc' = "filter"
    /\ UNCHANGED << callVars, envVars, scanVars,
                    previous_month_transactions, sumVars, topVars, files, uploads >>

\* lines 221-276: the loop over the items
Filter ==
    /\ pc = "filter"
    /\ previous_month_transactions' = FilterItems(items, previous_month)
    /\ warnings' = warnings \cup FilterWarnings(items, previous_month)
    /\ pc' = "check"
    /\ UNCHANGED << callVars, envVars, scanVars, sumVars,
                    topVars, files, uploads >>

\* the empty month without its return: the run goes on to an empty report
MutSkipEmpty ==
    /\ pc = "check"
    /\ previous_month_transactions = <<>>
    /\ warnings' = warnings \cup {"no_transactions"}
    /\ pc' = "sort"
    /\ UNCHANGED << callVars, envVars, scanVars,
                    previous_month_transactions, sumVars, topVars, files, uploads >>

\* lines 278-283: nothing for the month: the run returns
SkipEmpty ==
    /\ pc = "check"
    /\ previous_month_transactions = <<>>
    /\ warnings' = warnings \cup {"no_transactions"}
    /\ pc' = "returned"
    /\ UNCHANGED << callVars, envVars, scanVars,
                    previous_month_transactions, sumVars, topVars, files, uploads >>

\* lines 285-301: the totals
Summarise ==
    /\ pc = "check"
    /\ previous_month_transactions # <<>>
    /\ LET acc == AccumulateAll(EmptyAcc, previous_month_transactions, 1)
       IN  /\ total_income' = acc.total_income
           /\ total_expenses' = acc.total_expenses
           /\ categories' = acc.categories
           /\ merchants' = acc.merchants
           /\ net_income' = NetIncome(acc.total_income, acc.total_expenses)
    /\ pc' = "sort"
    /\ UNCHANGED << callVars, envVars, scanVars, warnings,
                    previous_month_transactions, topVars, files, uploads >>

\* lines 303-323: the top lists and the report dict
BuildReport ==
    /\ pc = "sort"
    /\ top_categories' = TopEntries(categories)
    /\ top_merchants' = TopEntries(merchants)
    /\ report' =
         << [month |-> previous_month,
             summary |->
                 [total_transactions |-> Len(previous_month_transactions),
                  total_income |-> total_income,
                  total_expenses |-> total_expenses,
                  net_income |-> net_income],
             top_categories |-> top_categories',
             top_merchants |-> top_merchants',
             transactions |-> previous_month_transactions] >>
    /\ pc' = "pdf"
    /\ UNCHANGED << callVars, envVars, scanVars, warnings,
                    previous_month_transactions, sumVars, files, uploads >>

\* the files with a counter in their names: a rerun adds a file
MutWrittenFiles(month, rep) ==
    { [name |-> <<"transaction_report_", month, "_", Cardinality(files), ".pdf">>,
       content |-> rep] }

\* the files generate_monthly_report writes for the month
WrittenFiles(month, rep) == { [name |-> ReportName(month), content |-> rep] }

\* lines 327-333: generate_monthly_pdf_report writes the month's file
WritePdf ==
    /\ pc = "pdf"
    /\ LET new == WrittenFiles(previous_month, report)
       IN  files' = { f \in files : \A g \in new : g.name # f.name } \cup new
    /\ pc' = "upload"
    /\ UNCHANGED << callVars, envVars, scanVars, warnings,
                    previous_month_transactions, sumVars, topVars, uploads >>

\* the upload without its try/except: a failed upload ends the run
MutUpload ==
    /\ pc = "upload"
    /\ IF s3_bucket # ""
       THEN \E ok \in BOOLEAN :
              /\ uploads' = Append(uploads,
                     [bucket |-> s3_bucket,
                      key |-> ReportKey("", previous_month), ok |-> ok])
              /\ pc' = IF ok THEN "returned" ELSE "raised"
              /\ UNCHANGED warnings
       ELSE pc' = "returned" /\ UNCHANGED << uploads, warnings >>
    /\ UNCHANGED << callVars, envVars, scanVars,
                    previous_month_transactions, sumVars, topVars, files >>

\* lines 335-344: the upload, if a bucket is configured, and the return
Upload ==
    /\ pc = "upload"
    /\ IF s3_bucket # ""
       THEN \E ok \in BOOLEAN :
              /\ uploads' = Append(uploads,
                     [bucket |-> s3_bucket,
                      key |-> ReportKey("", previous_month), ok |-> ok])
              /\ warnings' = IF ok THEN warnings
                             ELSE warnings \cup {"upload_failed"}
       ELSE UNCHANGED << uploads, warnings >>
    /\ pc' = "returned"
    /\ UNCHANGED << callVars, envVars, scanVars,
                    previous_month_transactions, sumVars, topVars, files >>

\* a handler that reports success whatever happened
MutStatusCode(outcome) == 200

\* lambda_handler's result: 500 from the except branch, 200 otherwise
StatusCode(outcome) == IF outcome = "raised" THEN 500 ELSE 200

\* lines 702-731: lambda_handler returns once generate_monthly_report has
\* returned or raised
LambdaReturn ==
    /\ pc \in {"returned", "raised"}
    /\ status_code = 0
    /\ status_code' = StatusCode(pc)
    /\ UNCHANGED << pc, callVars, history, arg, result, scanVars, warnings,
                    previous_month_transactions, sumVars, topVars, files, uploads >>

Next ==
    \/ Call
    \/ ScanFirst
    \/ ScanNext
    \/ ScanEnd
    \/ Filter
    \/ SkipEmpty
    \/ Summarise
    \/ BuildReport
    \/ WritePdf
    \/ Upload
    \/ LambdaReturn

Spec == Init /\ [][Next]_vars

(***************************************************************************)
(* Reruns: the handler is invoked again over the same store and the same   *)
(* output directory.                                                       *)
(***************************************************************************)
\* what a finished run leaves behind
Snapshot ==
    [month |-> previous_month, report |-> report, files |-> files,
     uploads |-> uploads]

\* the next invocation starts: the locals of the run are fresh, the store
\* and the files of the output directory stay
Rerun ==
    /\ pc = "returned" /\ status_code = 200
    /\ Len(history) + 1 < MaxRuns
    /\ history' = Append(history, Snapshot)
    /\ pc' = "idle"
    /\ s3_bucket' = ""
    /\ previous_month' = <<>>
    /\ current_date' = <<>>
    /\ response' = [Items |-> <<>>]
    /\ items' = <<>>
    /\ scan_count' = 0
    /\ requests' = <<>>
    /\ warnings' = {}
    /\ previous_month_transactions' = <<>>
    /\ total_income' = 0
    /\ total_expenses' = 0
    /\ categories' = <<>>
    /\ merchants' = <<>>
    /\ net_income' = 0
    /\ top_categories' = <<>>
    /\ top_merchants' = <<>>
    /\ report' = <<>>
    /\ uploads' = <<>>
    /\ status_code' = 0
    /\ UNCHANGED << table, dir, files, arg, result >>

\* the stores of the reruns: at most one item, or two pages
RerunTables ==
    { OnePage(<<>>) }
    \cup { OnePage(<<Records[k]>>) : k \in 1..Len(Records) }
    \cup { [pages |-> [i \in 1..2 |-> PagedPage(i)], endless |-> FALSE, malformed |-> 0] }

RerunInit == Init /\ table \in RerunTables

RerunNext == Next \/ Rerun

RerunSpec == RerunInit /\ [][RerunNext]_vars

(***************************************************************************)
(* The two parsers called on their own.                                    *)
(***************************************************************************)
\* day, month and year fields of the date strings
ShortFields ==
    { <<"3">>, <<"0", "3">>, <<"0", "4">>, <<"1", "2">>, <<"1", "3">>,
      <<"0", "2">>, <<"2", "9">>, <<"3", "0">>, <<"3", "1">>, <<"0", "0">> }

YearFields ==
    { <<"2", "0", "2", "3">>, <<"2", "0", "2", "4">>, <<"2", "4">> }

\* the date strings: two short fields and a year, the year last or first,
\* with dashes or slashes; two with mixed separators; None, "" and a word
DateInputs ==
    { a \o <<sep>> \o b \o <<sep>> \o y :
        a \in ShortFields, b \in ShortFields, y \in YearFields, sep \in {"-", "/"} }
    \cup { y \o <<sep>> \o a \o <<sep>> \o b :
        a \in ShortFields, b \in ShortFields, y \in YearFields, sep \in {"-", "/"} }
    \cup { <<"0", "3", "/", "0", "4", "-", "2", "0", "2", "4">>,
           <<"2", "0", "2", "4", "-", "0", "4", "/", "0", "3">>,
           None, <<>>, BadDate }

\* extract_month_from_date(s) is called, once
ExtractCall ==
    /\ pc = "idle" /\ arg = <<>>
    /\ \E s \in DateInputs :
          /\ arg' = <<"extract_month_from_date", s>>
          /\ result' = extract_month_from_date(s)
    /\ UNCHANGED << pc, callVars, status_code, history, scanVars, warnings,
                    previous_month_transactions, sumVars, topVars, files, uploads >>

\* the amount strings: not numbers, the words float() knows, plain and
\* signed numbers, numbers with a currency symbol and grouping commas
AmountInputs ==
    { None, <<>>,
      <<"a", "b", "c">>,
      <<"1", "2", "a", "b", "c">>,
      <<"1", ".", "2", ".", "3">>,
      <<"-", "-", "5">>,
      <<"-", " ", "5">>,
      <<"$">>,
      <<",">>,
      <<"n", "a", "n">>,
      <<"i", "n", "f">>,
      <<"-", "i", "n", "f">>,
      <<"i", "n", "f", "i", "n", "i", "t", "y">>,
      <<"N", "n", "a", "n">>,
      <<"1", ".", "5", "0">>,
      <<"-", "1", ".", "5", "0">>,
      <<"+", "5">>,
      <<".", "5">>,
      <<"5", ".">>,
      <<" ", "1", "2", " ">>,
      <<"0", ".", "0", "0">>,
      <<"N", "1", ",", "2", "3", "4", ".", "5", "6">>,
      <<"$", "1", ",", "2", "3", "4", ".", "5", "6">>,
      <<"L", "1", ",", "0", "0", "0">>,
      <<"E", "2", ",", "5", "0", "0">>,
      <<"$", "0", ".", "9", "9">>,
      <<"N", "5", "0", "0", "0", "0">>,
      <<"L", "5", "0", ".", "0", "0">>,
      <<"E", "2", "5", ".", "5", "0">>,
      <<"$", "-", "2", ".", "0", "0">>,
      <<"-", "$", "2", ".", "0", "0">>,
      <<"1", ",", "2", ",", "3">> }

\* parse_amount(s) is called, once
ParseCall ==
    /\ pc = "idle" /\ arg = <<>>
    /\ \E s \in AmountInputs :
          /\ arg' = <<"parse_amount", s>>
          /\ result' = parse_amount(s)
    /\ UNCHANGED << pc, callVars, status_code, history, scanVars, warnings,
                    previous_month_transactions, sumVars, topVars, files, uploads >>

ParserInit == Init /\ table = OnePage(<<>>)

ParserNext == ExtractCall \/ ParseCall

ParserSpec == ParserInit /\ [][ParserNext]_vars

(***************************************************************************)
(* The call on every month of several years.                               *)
(***************************************************************************)
WideNows == { <<y, mth>> : y \in {1999, 2000, 2001, 2024, 2025}, mth \in 1..12 }

CallWide == CallWith(WideNows)

CallSpec == RerunInit /\ [][CallWide]_vars

(***************************************************************************)
(* generate_overall_pdf_summary called on its own.  monthly_data is a      *)
(* dict, kept as the sequence of its <<month key, data>> pairs in          *)
(* insertion order.  Of the rendered document the model keeps the period,  *)
(* the month count, the totals and the breakdown rows; the two averages    *)
(* are kept only as far as their division can fail.                        *)
(***************************************************************************)
\* ord() of the characters of a month key
Ord(c) == IF c = "-" THEN 45 ELSE 48 + DigitVal(c)

\* a < b on two str
StrLess(a, b) ==
    \E k \in 1..(Len(a) + 1) :
        /\ k <= Len(b)
        /\ \A i \in 1..(k - 1) : a[i] = b[i]
        /\ k > Len(a) \/ Ord(a[k]) < Ord(b[k])

\* monthly_data.keys() and monthly_data[month]
KeysOf(monthly_data) == [i \in 1..Len(monthly_data) |-> monthly_data[i][1]]

DataOf(monthly_data, month) ==
    monthly_data[CHOOSE i \in 1..Len(monthly_data) : monthly_data[i][1] = month][2]

\* sorted(keys): ascending
SortedKeys(keys) ==
    LET rank(i) == 1 + Cardinality({ j \in 1..Len(keys) : StrLess(keys[j], keys[i]) })
    IN  [r \in 1..Len(keys) |-> keys[CHOOSE i \in 1..Len(keys) : rank(i) = r]]

\* min(keys) and max(keys) of a non-empty dict
MinKey(keys) == SortedKeys(keys)[1]

MaxKey(keys) == SortedKeys(keys)[Len(keys)]

\* sum(...) of floats: 0, then each value added in turn
RECURSIVE SumOf(_)
SumOf(s) == IF s = <<>> THEN 0 ELSE FAdd(SumOf(SubSeq(s, 1, Len(s) - 1)), s[Len(s)])

\* total / len(monthly_data): ZeroDivisionError on a zero divisor
DivisionRaises(n) == n = 0

\* datetime.strptime(month, "%Y-%m")
StrptimeYm(month) ==
    LET fields == Split(month, "-")
        fits == Len(fields) = 2 /\ MatchY(fields[1]) /\ MatchM(fields[2])
    IN  IF fits THEN [ok |-> TRUE, y |-> FieldVal(fields[1]), m |-> FieldVal(fields[2])]
        ELSE [ok |-> FALSE, y |-> 0, m |-> 0]

\* strftime's %B and %b
FullMonthNames ==
    << "January", "February", "March", "April", "May", "June", "July",
       "August", "September", "October", "November", "December" >>

ShortMonthNames ==
    << "Jan", "Feb", "Mar", "Apr", "May", "Jun", "Jul", "Aug", "Sep", "Oct",
       "Nov", "Dec" >>

\* strftime("%B %Y") and strftime("%b %Y"): the name, a space, the year
MonthDisplay(names, t) == << names[t.m], " ", ZeroPad(IntStr(t.y), 4) >>

NoDataAvailable == << "No data available" >>

\* the status of a breakdown row
StatusOf(net) ==
    IF net > 0 THEN "Profit" ELSE IF net < 0 THEN "Loss" ELSE "Break-even"

\* the function: what it raises ("" = nothing) and, when it returns, what
\* the document it built holds
generate_overall_pdf_summary(monthly_data) ==
    LET keys == KeysOf(monthly_data)
        incomes == [i \in 1..Len(monthly_data) |-> monthly_data[i][2].total_income]
        expenses == [i \in 1..Len(monthly_data) |-> monthly_data[i][2].total_expenses]
        total_months == Len(monthly_data)
        sorted == SortedKeys(keys)
        monthly_breakdown ==
            [r \in 1..Len(sorted) |->
                LET data == DataOf(monthly_data, sorted[r])
                IN  [month |-> sorted[r],
                     income |-> data.total_income,
                     expenses |-> data.total_expenses,
                     net |-> FSub(data.total_income, data.total_expenses)]]
        first_month == StrptimeYm(MinKey(keys))
        last_month == StrptimeYm(MaxKey(keys))
        row(b) ==
            LET t == StrptimeYm(b.month)
            IN  [month |-> b.month,
                 month_display |-> IF t.ok THEN MonthDisplay(ShortMonthNames, t)
                                   ELSE b.month,
                 status |-> StatusOf(b.net)]
    IN  IF DivisionRaises(total_months) THEN [raised |-> "ZeroDivisionError"]
        ELSE IF monthly_data # <<>> /\ ~(first_month.ok /\ last_month.ok)
        THEN [raised |-> "ValueError"]
        ELSE [raised |-> "",
              period |-> IF monthly_data # <<>>
                         THEN << MonthDisplay(FullMonthNames, first_month), " to ",
                                 MonthDisplay(FullMonthNames, last_month) >>
                         ELSE NoDataAvailable,
              total_months |-> total_months,
              total_income |-> SumOf(incomes),
              total_expenses |-> SumOf(expenses),
              net_income |-> FSub(SumOf(incomes), SumOf(expenses)),
              rows |-> [r \in 1..Len(monthly_breakdown) |-> row(monthly_breakdown[r])]]

\* month keys: three months across a year's end, and one that is no month
Dec2023 == <<"2", "0", "2", "3", "-", "1", "2">>
Jan2024 == <<"2", "0", "2", "4", "-", "0", "1">>
Feb2024 == <<"2", "0", "2", "4", "-", "0", "2">>
NoMonth == <<"2", "0", "2", "4", "-", "0", "1", "3">>

OverallKeys == { Dec2023, Jan2024, NoMonth, Feb2024 }

\* the totals of a month: a profit, a loss, and break-even twice
OverallDatas ==
    { [total_income |-> 100, total_expenses |-> 0],
      [total_income |-> 100, total_expenses |-> 250],
      [total_income |-> 100, total_expenses |-> 100],
      [total_income |-> 0, total_expenses |-> 0] }

\* the dicts of at most MaxMonths months, in every insertion order
MonthlyDatas ==
    { md \in UNION { [1..n -> OverallKeys \X OverallDatas] : n \in 0..MaxMonths } :
        \A i, j \in 1..Len(md) : md[i][1] = md[j][1] => i = j }

overall_pdf_file == << "overall_summary.pdf" >>

\* the call: doc.build(story) writes pdf_file unless something was raised
OverallCall ==
    /\ pc = "idle" /\ arg = <<>>
    /\ \E md \in MonthlyDatas :
          /\ arg' = <<"generate_overall_pdf_summary", md>>
          /\ result' = generate_overall_pdf_summary(md)
          /\ files' = IF result'.raised = "" THEN files \cup {overall_pdf_file}
                      ELSE files
    /\ UNCHANGED << pc, callVars, status_code, history, scanVars, warnings,
                    previous_month_transactions, sumVars, topVars, uploads >>

OverallSpec == ParserInit /\ [][OverallCall]_vars

(***************************************************************************)
(* The claims.                                                             *)
(***************************************************************************)
ScanDone == pc \in {"filter", "check", "sort", "pdf", "upload", "returned"}

\* the items of pages lo..hi of the store, in page order
RECURSIVE ConcatRange(_, _, _)
ConcatRange(t, lo, hi) ==
    IF lo > hi THEN <<>>
    ELSE IF lo = hi THEN PageAt(t, lo)
    ELSE LET mid == (lo + hi) \div 2
         IN  ConcatRange(t, lo, mid) \o ConcatRange(t, mid + 1, hi)

ConcatPages(t, n) == ConcatRange(t, 1, n)

\* C1: whatever the store does, the scan ends: every request after the
\* first passes the token of the page before it, at most max_scans requests
\* are issued, the loop never hangs (it either requests again or is left),
\* and it is left with no token or with max_scans requests made.
C1_ScanTerminates ==
    /\ scan_count <= max_scans
    /\ Len(requests) <= max_scans
    /\ pc # "raised" => Len(requests) = scan_count
    /\ \A j \in 1..Len(requests) :
          requests[j] = IF j = 1 THEN NoKey ELSE Token(j - 1)
    /\ pc = "scan_loop" => (ENABLED ScanNext \/ ENABLED ScanEnd)
    /\ ScanDone =>
          \/ "LastEvaluatedKey" \notin DOMAIN response
          \/ scan_count = max_scans

\* C1 witness: the endless store has been scanned and the run has gone on
C1_Witness ==
    table.endless /\ pc = "returned" /\ scan_count = max_scans

\* C2: a store of n <= max_scans pages is read whole: the items are the
\* pages' items in page order, and request j passes the token of page j - 1.
C2_PagesConcatenated ==
    (ScanDone /\ ~table.endless /\ Len(table.pages) <= max_scans) =>
        /\ items = ConcatPages(table, Len(table.pages))
        /\ requests = [j \in 1..Len(table.pages) |->
                          IF j = 1 THEN NoKey ELSE Token(j - 1)]

\* C2 witness: a store of three pages, the last two holding items, is read
C2_Witness ==
    /\ ScanDone /\ ~table.endless /\ Len(table.pages) = 3
    /\ Len(items) = Len(table.pages[1]) + Len(table.pages[2]) + Len(table.pages[3])
    /\ Len(items) > 1

\* the ceiling is hit: max_scans requests made and the last page has a token
CeilingHit ==
    scan_count = max_scans /\ "LastEvaluatedKey" \in DOMAIN response

\* C3: when the ceiling is hit the run does not raise, goes on with the items
\* of the first max_scans pages, and has warned once the loop is left.
C3_CeilingDegrades ==
    CeilingHit =>
        /\ pc # "raised"
        /\ items = ConcatPages(table, max_scans)
        /\ pc = "scan_loop" => ENABLED ScanEnd
        /\ ScanDone => "scan_limit" \in warnings

\* C3 witness: a store of more than max_scans pages: the run has completed
\* with the ceiling hit and the warning printed
C3_Witness ==
    CeilingHit /\ pc = "returned" /\ "scan_limit" \in warnings /\ Len(items) > 0

\* the months in which the store has a transaction that passes validation
ValidMonths ==
    { extract_month_from_date(Get(items[i], "date", None)) :
        i \in { k \in 1..Len(items) :
                  LET m == extract_month_from_date(Get(items[k], "date", None))
                  IN  Truthy(m) /\ Verdict(items[k], m) = "kept" } }

HasFile(name) == \E f \in files : f.name = name

\* C4: after a run on a store with valid transactions in several months the
\* output directory holds a report for each of those months and
\* overall_summary.pdf.
C4_EveryMonthReported ==
    (pc = "returned" /\ Cardinality(ValidMonths) >= 2) =>
        /\ \A m \in ValidMonths : HasFile(ReportName(m))
        /\ HasFile(<<"overall_summary.pdf">>)

NothingKept ==
    \A i \in 1..Len(items) : Verdict(items[i], previous_month) # "kept"

\* C5: when no scanned record passes the month filter and validation, the run
\* returns without raising, writes no document and uploads nothing.
C5_EmptyMonthNoop ==
    (pc \in {"check", "sort", "pdf", "upload", "returned"} /\ NothingKept) =>
        /\ pc \in {"check", "returned"}
        /\ pc = "check" => ENABLED SkipEmpty
        /\ files = {} /\ uploads = <<>> /\ report = <<>>

\* C5 witness: a run with a bucket over a store whose only items of the
\* target month are invalid has returned
C5_Witness ==
    /\ pc = "returned" /\ NothingKept /\ s3_bucket # ""
    /\ \E i \in 1..Len(items) : Verdict(items[i], previous_month) = "invalid"

(***************************************************************************)
(* The summary, recomputed from the transactions of the report.            *)
(***************************************************************************)
\* the float sum of a sequence of amounts, left to right, from 0.0
RECURSIVE FSum(_)
FSum(s) ==
    IF s = <<>> THEN 0 ELSE FAdd(FSum(SubSeq(s, 1, Len(s) - 1)), s[Len(s)])

Magnitudes(txns) == [i \in 1..Len(txns) |-> FAbs(txns[i].amount)]

CreditsOf(txns) == SelectSeq(txns, LAMBDA t : t.type = Credit)

ExpensesOf(txns) == SelectSeq(txns, LAMBDA t : t.type # Credit)

\* the expense transactions whose field (category or merchant) is name
ExpensesNamed(txns, field, name) ==
    SelectSeq(ExpensesOf(txns), LAMBDA t : t[field] = name)

ExpenseNames(txns, field) ==
    { ExpensesOf(txns)[i][field] : i \in 1..Len(ExpensesOf(txns)) }

NameTotal(txns, field, name) == FSum(Magnitudes(ExpensesNamed(txns, field, name)))

\* the position of the first expense transaction with that name
FirstSeen(txns, field, name) ==
    CHOOSE i \in 1..Len(ExpensesOf(txns)) :
        /\ ExpensesOf(txns)[i][field] = name
        /\ \A j \in 1..(i - 1) : ExpensesOf(txns)[j][field] # name

Amounts(top) == [i \in 1..Len(top) |-> top[i][2]]

\* C6: in the summary of every report, net_income is total_income minus
\* total_expenses.
C6_NetIncome ==
    report # <<>> =>
        report[1].summary.net_income =
            FSub(report[1].summary.total_income, report[1].summary.total_expenses)

\* C6 witness: a report with both income and expenses, and a net income that
\* is neither of them
C6_Witness ==
    /\ pc = "returned" /\ report # <<>>
    /\ report[1].summary.total_income # 0
    /\ report[1].summary.total_expenses # 0
    /\ report[1].summary.net_income # report[1].summary.total_income

\* C7: total_income is the sum of the magnitudes of the amounts of the credit
\* transactions of the filtered set, negative amounts included, and so is
\* never negative.
C7_IncomeMagnitudes ==
    report # <<>> =>
        /\ report[1].summary.total_income =
               FSum(Magnitudes(CreditsOf(report[1].transactions)))
        /\ report[1].summary.total_income >= 0

\* C8: total_expenses is the sum of the absolute values of the amounts of
\* the transactions of the filtered set whose lowercased type is not credit.
C8_ExpensesAbsSum ==
    report # <<>> =>
        report[1].summary.total_expenses =
            FSum(Magnitudes(ExpensesOf(report[1].transactions)))

\* C8 witness: a report over a negative non-credit amount and another
\* expense
C8_Witness ==
    /\ pc = "returned" /\ report # <<>>
    /\ Len(ExpensesOf(report[1].transactions)) >= 2
    /\ \E i \in 1..Len(report[1].transactions) :
          /\ report[1].transactions[i].type # Credit
          /\ report[1].transactions[i].amount < 0
    /\ report[1].summary.total_expenses > 0

\* every entry of a top list carries the sum of the magnitudes of the
\* expense transactions with its name
EntriesAreSums(top, txns, field) ==
    \A i \in 1..Len(top) :
        /\ top[i][1] \in ExpenseNames(txns, field)
        /\ top[i][2] = NameTotal(txns, field, top[i][1])

\* C9: every entry of top_categories and top_merchants carries the sum of
\* the magnitudes of the expense transactions with its name, credits
\* contribute to neither, and the amounts of top_categories sum to at most
\* total_expenses.
C9_TopSums ==
    report # <<>> =>
        /\ EntriesAreSums(report[1].top_categories, report[1].transactions, "category")
        /\ EntriesAreSums(report[1].top_merchants, report[1].transactions, "merchant")
        /\ FSum(Amounts(report[1].top_categories)) <= report[1].summary.total_expenses

\* a top list against the transactions: at most TopN entries of distinct
\* names, all of them when there are no more than TopN names, non-increasing,
\* no name left out with a larger total, and equal totals in the order of
\* first encounter (also across the cut)
TopListOrdered(top, txns, field) ==
    LET names == ExpenseNames(txns, field)
        listed == { top[i][1] : i \in 1..Len(top) }
        total(n) == NameTotal(txns, field, n)
        seen(n) == FirstSeen(txns, field, n)
    IN  /\ Len(top) <= TopN
        /\ Len(top) = IF Cardinality(names) < TopN THEN Cardinality(names) ELSE TopN
        /\ listed \subseteq names
        /\ Cardinality(listed) = Len(top)
        /\ \A i \in 1..Len(top) : top[i][2] = total(top[i][1])
        /\ \A i, j \in 1..Len(top) : i < j => top[i][2] >= top[j][2]
        /\ \A i, j \in 1..Len(top) :
              (i < j /\ top[i][2] = top[j][2]) => seen(top[i][1]) < seen(top[j][1])
        /\ \A n \in names \ listed : \A i \in 1..Len(top) :
              \/ total(n) < top[i][2]
              \/ total(n) = top[i][2] /\ seen(top[i][1]) < seen(n)

\* C10: top_categories and top_merchants hold at most 10 entries, are
\* non-increasing by amount, hold the 10 largest totals when there are more
\* than 10 names, and keep equal amounts in the order in which the names
\* were first met among the expense transactions.
C10_TopLists ==
    report # <<>> =>
        /\ TopListOrdered(report[1].top_categories, report[1].transactions, "category")
        /\ TopListOrdered(report[1].top_merchants, report[1].transactions, "merchant")

\* C10 witness: more than TopN categories and merchants, a tie inside the
\* category list and a tie across the cut of the merchant list
C10_Witness ==
    /\ pc = "returned" /\ report # <<>>
    /\ Len(categories) > TopN /\ Len(merchants) > TopN
    /\ Len(report[1].top_categories) = TopN
    /\ \E i \in 1..(TopN - 1) :
          report[1].top_categories[i][2] = report[1].top_categories[i + 1][2]
    /\ \E n \in ExpenseNames(report[1].transactions, "merchant") :
          /\ \A i \in 1..TopN : report[1].top_merchants[i][1] # n
          /\ NameTotal(report[1].transactions, "merchant", n)
                 = report[1].top_merchants[TopN][2]

(***************************************************************************)
(* The filter and the validation, judged on the raw items.                 *)
(***************************************************************************)
FilterDone == pc \in {"check", "sort", "pdf", "upload", "returned"}

\* the item has the four required fields: a non-empty date, an amount that
\* parses to a non-zero number, a non-empty category and a non-empty merchant
HasRequired(item) ==
    /\ "date" \in DOMAIN item /\ Truthy(item.date)
    /\ "amount" \in DOMAIN item /\ parse_amount(item.amount) # 0
    /\ "category" \in DOMAIN item /\ item.category # ""
    /\ "merchant" \in DOMAIN item /\ item.merchant # ""

InTargetMonth(item) ==
    "date" \in DOMAIN item /\ extract_month_from_date(item.date) = previous_month

\* C11: the transactions of the summary are the raw records of the target
\* month that have a non-empty date, a non-zero parsed amount, a non-empty
\* category and a non-empty merchant, and no others: a record without the
\* category or the merchant field, or with a zero or unparseable amount, is
\* skipped.
C11_ValidationSkips ==
    FilterDone =>
        Len(previous_month_transactions) =
            Len(SelectSeq(items, LAMBDA it : InTargetMonth(it) /\ HasRequired(it)))

(***************************************************************************)
(* Income and expenses, judged on the raw items that were kept.            *)
(***************************************************************************)
\* the word credit in any mix of upper and lower case
IsCreditWord(t) ==
    /\ Len(t) = 6
    /\ t[1] \in {"c", "C"} /\ t[2] \in {"r", "R"} /\ t[3] \in {"e", "E"}
    /\ t[4] \in {"d", "D"} /\ t[5] \in {"i", "I"} /\ t[6] \in {"t", "T"}

KeptRaw == SelectSeq(items, LAMBDA it : Verdict(it, previous_month) = "kept")

IsRawIncome(it) ==
    "transactionType" \in DOMAIN it /\ IsCreditWord(it.transactionType)

RawIncome == SelectSeq(KeptRaw, IsRawIncome)

RawExpenses == SelectSeq(KeptRaw, LAMBDA it : ~IsRawIncome(it))

RawAmounts(its) == [i \in 1..Len(its) |-> parse_amount(its[i].amount)]

RawMagnitudes(its) == [i \in 1..Len(its) |-> FAbs(parse_amount(its[i].amount))]

RawName(it, field) == IF field \in DOMAIN it THEN it[field] ELSE "Unknown"

\* a running-total dict holds exactly the names of the raw expenses, each
\* with the sum of the magnitudes of the raw expenses of that name
DictOfRawExpenses(d, expenses, field) ==
    /\ { d[i][1] : i \in 1..Len(d) }
           = { RawName(expenses[i], field) : i \in 1..Len(expenses) }
    /\ \A i \in 1..Len(d) :
          d[i][2] = FSum(RawMagnitudes(
                        SelectSeq(expenses, LAMBDA it : RawName(it, field) = d[i][1])))

\* C12: a validated transaction is income exactly when its transactionType
\* is the word credit in any case; every other one, a record without the
\* field included, is an expense and adds its magnitude to its category's and
\* its merchant's total; total_transactions is the number of income plus the
\* number of expense transactions.
C12_TypeBuckets ==
    report # <<>> =>
        LET income == RawIncome
            expenses == RawExpenses
        IN  /\ report[1].summary.total_income = FSum(RawAmounts(income))
            /\ report[1].summary.total_expenses = FSum(RawMagnitudes(expenses))
            /\ DictOfRawExpenses(categories, expenses, "category")
            /\ DictOfRawExpenses(merchants, expenses, "merchant")
            /\ report[1].summary.total_transactions = Len(income) + Len(expenses)

\* C12 witness: a report over a CREDIT record and a record with no
\* transactionType
C12_Witness ==
    /\ pc = "returned" /\ report # <<>>
    /\ \E i \in 1..Len(RawIncome) : RawIncome[i].transactionType = CreditUpper
    /\ \E i \in 1..Len(RawExpenses) : "transactionType" \notin DOMAIN RawExpenses[i]
    /\ report[1].summary.total_income # 0

\* the item passes all([date_str, amount, category, merchant])
ValidRaw(it) ==
    Validates(Get(it, "date", None), parse_amount(Get(it, "amount", None)),
              Get(it, "category", "Unknown"), Get(it, "merchant", "Unknown"))

\* C13: every transaction of the summary has a date of the target month;
\* the records of another month and the records whose date cannot be parsed
\* are left out, and the records after them are still processed: the
\* transactions are exactly the valid records of the target month, in order.
C13_MonthFilter ==
    FilterDone =>
        /\ \A i \in 1..Len(previous_month_transactions) :
              extract_month_from_date(previous_month_transactions[i].date)
                  = previous_month
        /\ LET due == SelectSeq(items, LAMBDA it : InTargetMonth(it) /\ ValidRaw(it))
           IN  previous_month_transactions = [i \in 1..Len(due) |-> Normalised(due[i])]

\* C13 witness: a record with an unparseable date, then a record of the
\* target month that is in the report
C13_Witness ==
    /\ pc = "returned" /\ Len(items) >= 2
    /\ "date" \in DOMAIN items[1] /\ items[1].date = BadDate
    /\ InTargetMonth(items[2])
    /\ report # <<>> /\ Len(report[1].transactions) = 1

\* C13 witness: a record of another month is left out of a report
C13_WitnessOtherMonth ==
    /\ pc = "returned" /\ report # <<>>
    /\ \E i \in 1..Len(items) :
          /\ "date" \in DOMAIN items[i]
          /\ Truthy(extract_month_from_date(items[i].date))
          /\ ~InTargetMonth(items[i])

(***************************************************************************)
(* The upload.                                                             *)
(***************************************************************************)
\* C14: the upload is attempted only with a bucket configured, only after
\* the local document has been written and at most once in a run; when it
\* fails the run still returns normally, with a warning, and the local
\* document is still there.
C14_UploadFailureTolerated ==
    /\ Len(uploads) <= 1
    /\ s3_bucket = "" => uploads = <<>>
    /\ pc = "upload" => (ENABLED Upload /\ HasFile(ReportName(previous_month)))
    /\ uploads # <<>> =>
          /\ pc = "returned"
          /\ uploads[1].bucket = s3_bucket
          /\ HasFile(ReportName(previous_month))
          /\ ~uploads[1].ok => "upload_failed" \in warnings

\* C14 witness: a run with a bucket has returned after a failed upload, the
\* document in place
C14_Witness ==
    /\ pc = "returned" /\ s3_bucket # ""
    /\ uploads # <<>> /\ ~uploads[1].ok
    /\ HasFile(ReportName(previous_month))

(***************************************************************************)
(* The output directory.                                                   *)
(***************************************************************************)
\* C15: whatever the output directory path, also one whose parent
\* directories are missing, the directory is there once the run has started:
\* the missing parents are created and the run does not fail for them.
C15_ParentsCreated ==
    pc # "idle" => dir = "exists"

(***************************************************************************)
(* Reruns.                                                                 *)
(***************************************************************************)
FilesNamed(fs, name) == { f \in fs : f.name = name }

\* C16: a run for a month that an earlier run over the same store already
\* handled computes the same report, writes the same file name with the same
\* content and uploads under the same key
\* monthly_reports/<month>/transaction_report_<month>.pdf; when the earlier
\* run is the one just before, the output directory holds the same set of
\* files as after that run.  No name is ever held twice.
C16_RerunsOverwrite ==
    /\ \A f, g \in files : f.name = g.name => f = g
    /\ pc = "returned" =>
          \A k \in 1..Len(history) :
              history[k].month = previous_month =>
                  /\ report = history[k].report
                  /\ FilesNamed(files, ReportName(previous_month))
                         = FilesNamed(history[k].files, ReportName(previous_month))
                  /\ \A i \in 1..Len(uploads), j \in 1..Len(history[k].uploads) :
                        /\ uploads[i].key = history[k].uploads[j].key
                        /\ uploads[i].key =
                               << "", "monthly_reports/", previous_month, "/",
                                  "transaction_report_", previous_month, ".pdf" >>
                  /\ k = Len(history) => files = history[k].files

\* C16 witness: the second run in a row for the same month has returned,
\* both with a report and an upload
C16_Witness ==
    /\ pc = "returned" /\ history # <<>>
    /\ history[Len(history)].month = previous_month
    /\ report # <<>> /\ HasFile(ReportName(previous_month))
    /\ uploads # <<>> /\ history[Len(history)].uploads # <<>>

(***************************************************************************)
(* The target month.                                                       *)
(***************************************************************************)
\* C17: the target month is a key YYYY-MM with a two-digit month in 01..12
\* and is the calendar month right before the invocation date: month m - 1
\* of the same year, or December of the year before for a date in January.
C17_PreviousMonth ==
    current_date # <<>> =>
        /\ Len(previous_month) = 7
        /\ previous_month[5] = "-"
        /\ AllDigits(SubSeq(previous_month, 1, 4))
        /\ AllDigits(SubSeq(previous_month, 6, 7))
        /\ LET y == DigitsVal(SubSeq(previous_month, 1, 4))
               mth == DigitsVal(SubSeq(previous_month, 6, 7))
           IN  /\ mth \in 1..12
               /\ 12 * y + mth = 12 * current_date[1] + current_date[2] - 1
               /\ current_date[2] = 1 => (y = current_date[1] - 1 /\ mth = 12)
               /\ current_date[2] > 1 => (y = current_date[1] /\ mth = current_date[2] - 1)

\* C17 witness: a call in January 2000 and its target month 1999-12
C17_Witness ==
    /\ current_date = <<2000, 1>>
    /\ previous_month = <<"1", "9", "9", "9", "-", "1", "2">>
    /\ pc = "scan"

(***************************************************************************)
(* Failures and the handler.                                               *)
(***************************************************************************)
\* no step of the run can be taken
RunStopped ==
    /\ ~ENABLED ScanFirst /\ ~ENABLED ScanNext /\ ~ENABLED ScanEnd
    /\ ~ENABLED Filter /\ ~ENABLED SkipEmpty /\ ~ENABLED Summarise
    /\ ~ENABLED BuildReport /\ ~ENABLED WritePdf /\ ~ENABLED Upload

\* C18: an exception in the run (a scan response without the Items field, a
\* directory that cannot be made) is not swallowed: the run stops there, with
\* no report and no upload, and lambda_handler returns 500; lambda_handler
\* returns 200 exactly when the run returned, the empty month included.
C18_FailuresPropagate ==
    /\ "Items" \notin DOMAIN response => pc = "raised"
    /\ pc = "raised" => (RunStopped /\ uploads = <<>> /\ report = <<>>)
    /\ (pc \in {"returned", "raised"} /\ status_code = 0) => ENABLED LambdaReturn
    /\ status_code # 0 =>
          /\ pc \in {"returned", "raised"}
          /\ status_code = 200 <=> pc = "returned"
          /\ status_code = 500 <=> pc = "raised"

\* C18 witness: the second scan response had no Items field and the handler
\* has returned 500
C18_Witness ==
    /\ "Items" \notin DOMAIN response /\ Len(requests) = 2
    /\ pc = "raised" /\ status_code = 500

\* C18 witness: the handler has returned 200 for an empty month
C18_WitnessEmptyMonth ==
    /\ pc = "returned" /\ status_code = 200
    /\ "no_transactions" \in warnings /\ report = <<>>

(***************************************************************************)
(* The date parser.                                                        *)
(***************************************************************************)
\* the digits of f as a number, or -1 when f is not a run of 1..maxLen digits
NumberIn(f, minLen, maxLen) ==
    IF Len(f) >= minLen /\ Len(f) <= maxLen /\ AllDigits(f) THEN DigitsVal(f) ELSE 0 - 1

\* a calendar date
IsDate(y, mth, d) ==
    /\ y >= 1 /\ mth \in 1..12 /\ d >= 1
    /\ d <= (CASE mth \in {4, 6, 9, 11} -> 30
               [] mth = 2 -> IF y % 4 = 0 /\ (y % 100 # 0 \/ y % 400 = 0) THEN 29 ELSE 28
               [] OTHER -> 31)

\* the fields of s between two separators sep, or <<>> when s has no such shape
ThreeFields(s, sep) ==
    LET at == { i \in 1..Len(s) : s[i] = sep }
    IN  IF Cardinality(at) # 2 THEN <<>>
        ELSE LET i == CHOOSE i \in at : \A j \in at : i <= j
                 j == CHOOSE j \in at : j # i
             IN  << SubSeq(s, 1, i - 1), SubSeq(s, i + 1, j - 1),
                    SubSeq(s, j + 1, Len(s)) >>

\* the year and month s stands for when read in one of the six ways, <<>>
\* when it cannot be read that way
Reading(s, sep, way) ==
    LET f == ThreeFields(s, sep)
    IN  IF f = <<>> THEN <<>>
        ELSE LET y == NumberIn(IF way = "YMD" THEN f[1] ELSE f[3], 4, 4)
                 mth == NumberIn(CASE way = "YMD" -> f[2] [] way = "DMY" -> f[2]
                                   [] OTHER -> f[1], 1, 2)
                 d == NumberIn(CASE way = "YMD" -> f[3] [] way = "DMY" -> f[1]
                                 [] OTHER -> f[2], 1, 2)
             IN  IF IsDate(y, mth, d) THEN <<y, mth>> ELSE <<>>

\* the year and month a key YYYY-MM stands for
KeyMonth(key) ==
    << DigitsVal(SubSeq(key, 1, 4)), DigitsVal(SubSeq(key, 6, 7)) >>

IsMonthKey(key) ==
    /\ Len(key) = 7 /\ key[5] = "-"
    /\ AllDigits(SubSeq(key, 1, 4)) /\ AllDigits(SubSeq(key, 6, 7))

\* the claimed result for s: the first of the six readings, in the fixed
\* order, that is a calendar date
FirstReading(s) ==
    LET ways == << <<"-", "YMD">>, <<"/", "DMY">>, <<"/", "MDY">>,
                   <<"/", "YMD">>, <<"-", "DMY">>, <<"-", "MDY">> >>
        ok == { k \in 1..6 : Reading(s, ways[k][1], ways[k][2]) # <<>> }
    IN  IF ok = {} THEN <<>>
        ELSE LET k == CHOOSE k \in ok : \A j \in ok : k <= j
             IN  Reading(s, ways[k][1], ways[k][2])

ExtractCalled == arg # <<>> /\ arg[1] = "extract_month_from_date"

\* C19: extract_month_from_date returns the YYYY-MM key of the first of the
\* six patterns, in the fixed order, that parses: a slash date that reads
\* both ways is read day-first (03/04/2024 is April), a first field above 12
\* is the day, a second field above 12 makes the first the month; None, ""
\* and unparseable strings give None.
C19_PatternOrder ==
    ExtractCalled =>
        LET s == arg[2]
            slash == IF s = None THEN <<>> ELSE ThreeFields(s, "/")
        IN  /\ s \in {None, <<>>} => result = None
            /\ (s # None /\ FirstReading(s) = <<>>) => result = None
            /\ (s # None /\ FirstReading(s) # <<>>) =>
                  /\ IsMonthKey(result)
                  /\ KeyMonth(result) = FirstReading(s)
            /\ s = <<"0", "3", "/", "0", "4", "/", "2", "0", "2", "4">> =>
                  result = <<"2", "0", "2", "4", "-", "0", "4">>
            /\ (slash # <<>> /\ result # None /\ Len(slash[3]) = 4) =>
                  /\ NumberIn(slash[1], 1, 2) > 12 =>
                        KeyMonth(result)[2] = NumberIn(slash[2], 1, 2)
                  /\ NumberIn(slash[2], 1, 2) > 12 =>
                        KeyMonth(result)[2] = NumberIn(slash[1], 1, 2)
                  /\ (NumberIn(slash[1], 1, 2) <= 12 /\ NumberIn(slash[2], 1, 2) <= 12) =>
                        KeyMonth(result)[2] = NumberIn(slash[2], 1, 2)

\* C19 witness: 03/04/2024 has been read as April 2024
C19_Witness ==
    /\ arg = << "extract_month_from_date",
                <<"0", "3", "/", "0", "4", "/", "2", "0", "2", "4">> >>
    /\ result = <<"2", "0", "2", "4", "-", "0", "4">>

(***************************************************************************)
(* The amount parser.                                                      *)
(***************************************************************************)
\* s without the four currency symbols and the commas
WithoutSymbols(s) == SelectSeq(s, LAMBDA c : c \notin {"N", "$", "L", "E", ","})

\* s without the spaces around it
Trimmed(s) ==
    LET inked == { i \in 1..Len(s) : s[i] # " " }
    IN  IF inked = {} THEN <<>>
        ELSE SubSeq(s, CHOOSE i \in inked : \A j \in inked : i <= j,
                       CHOOSE i \in inked : \A j \in inked : i >= j)

Unsigned(t) == IF t # <<>> /\ t[1] \in {"+", "-"} THEN SubSeq(t, 2, Len(t)) ELSE t

\* t is a number written in decimal: digits with at most one point
IsDecimalNumber(t) ==
    LET u == Unsigned(t)
    IN  /\ \A i \in 1..Len(u) : IsDigit(u[i]) \/ u[i] = "."
        /\ Cardinality({ i \in 1..Len(u) : u[i] = "." }) <= 1
        /\ \E i \in 1..Len(u) : IsDigit(u[i])

\* t is plus or minus infinity
IsInfinity(t) == Unsigned(t) \in InfWords

\* the value of a decimal number with at most two fraction digits, in
\* hundredths
DecimalValue(t) ==
    LET u == Unsigned(t)
        points == { i \in 1..Len(u) : u[i] = "." }
        p == IF points = {} THEN Len(u) + 1 ELSE CHOOSE i \in points : TRUE
        whole == DigitsVal(SubSeq(u, 1, p - 1))
        tenths == IF p + 1 <= Len(u) THEN DigitVal(u[p + 1]) ELSE 0
        hundredths == IF p + 2 <= Len(u) THEN DigitVal(u[p + 2]) ELSE 0
        magnitude == 100 * whole + 10 * tenths + hundredths
    IN  IF t[1] = "-" THEN 0 - magnitude ELSE magnitude

ParseCalled == arg # <<>> /\ arg[1] = "parse_amount"

\* C20: parse_amount returns 0.0 for None, for "" and for every input that
\* is not a number once the currency symbols and the commas are removed, and
\* for a number, also with a currency symbol and grouping commas, the float
\* of its value with its sign unchanged.
C20_ParseAmount ==
    ParseCalled =>
        LET s == arg[2]
            cleaned == IF s = None THEN <<>> ELSE Trimmed(WithoutSymbols(s))
        IN  /\ s \in {None, <<>>} => result = 0
            /\ (~IsDecimalNumber(cleaned) /\ ~IsInfinity(cleaned)) =>
                  result = 0
            /\ IsDecimalNumber(cleaned) =>
                  result = RoundF(DecimalValue(cleaned))

(***************************************************************************)
(* The scan limit warning.                                                 *)
(***************************************************************************)
\* C21: the warning that the scan limit was reached is printed only when
\* the scan stopped with a continuation token outstanding; a store whose
\* data ends on page max_scans, that page without a token, is read whole and
\* gives no warning.
C21_WarningOnlyWhenTruncated ==
    "scan_limit" \in warnings => "LastEvaluatedKey" \in DOMAIN response

(***************************************************************************)
(* The overall summary.                                                    *)
(***************************************************************************)
OverallCalled == arg # <<>> /\ arg[1] = "generate_overall_pdf_summary"

\* the months of a dict, each after every smaller one
AscendingMonths(md) ==
    CHOOSE s \in [1..Len(md) -> { md[i][1] : i \in 1..Len(md) }] :
        /\ \A i \in 1..Len(md) : \E r \in 1..Len(md) : s[r] = md[i][1]
        /\ \A r \in 1..(Len(md) - 1) : StrLess(s[r], s[r + 1])

\* income minus expenses of a month of a dict
NetOf(md, month) ==
    LET data == md[CHOOSE i \in 1..Len(md) : md[i][1] = month][2]
    IN  data.total_income - data.total_expenses

LabelOf(net) ==
    CASE net > 0 -> "Profit" [] net < 0 -> "Loss" [] OTHER -> "Break-even"

\* the months of a non-empty dict are listed in ascending key order, each
\* labelled by the sign of its income minus its expenses
RowsListed(md, r) ==
    /\ r.raised = ""
    /\ Len(r.rows) = Len(md)
    /\ \A k \in 1..Len(md) :
          /\ r.rows[k].month = AscendingMonths(md)[k]
          /\ r.rows[k].status = LabelOf(NetOf(md, r.rows[k].month))

\* every key of the dict is a YYYY-MM month key
MonthKeyed(md) == \A i \in 1..Len(md) : StrptimeYm(md[i][1]).ok

\* C22: generate_overall_pdf_summary called with no month completes without
\* raising and renders the period as "No data available" with a month count
\* of 0; with months, it lists them in ascending key order and labels each
\* Profit when its income minus expenses is positive, Loss when negative and
\* Break-even when zero.
C22_OverallSummary ==
    OverallCalled =>
        LET md == arg[2]
        IN  IF md = <<>>
            THEN /\ result.raised = ""
                 /\ result.period = NoDataAvailable
                 /\ result.total_months = 0
            ELSE MonthKeyed(md) => RowsListed(md, result)

\* the part of C22 about a dict with months in it
C22_NonEmptyPart ==
    (OverallCalled /\ arg[2] # <<>> /\ MonthKeyed(arg[2])) => RowsListed(arg[2], result)

\* what the call on the empty dict does
C22_EmptyRaises ==
    (OverallCalled /\ arg[2] = <<>>) => result.raised = "ZeroDivisionError"

\* a key that is no month stops the call when it is the first or the last
\* key, and is listed as it stands otherwise
C22_NoMonthKey ==
    (OverallCalled /\ arg[2] # <<>>) =>
        LET keys == KeysOf(arg[2])
        IN  IF NoMonth \in { MinKey(keys), MaxKey(keys) }
            THEN result.raised = "ValueError"
            ELSE /\ result.raised = ""
                 /\ \A k \in 1..Len(result.rows) :
                       result.rows[k].month = NoMonth
                           => result.rows[k].month_display = NoMonth

=============================================================================
